---- MODULE Spec2Model ----
(***************************************************************************)
(* Model of scripts/review.py: the rule-based review pipeline              *)
(* (diagnose -> extract -> lineage / interpretation -> citations /         *)
(* aesthetic logic -> report -> format).                                   *)
(*                                                                         *)
(* A manuscript text is a sequence of Unicode code points (integers), so   *)
(* that the character classes of the regular expressions ([A-Z],           *)
(* [一-龥], \b, '.', [^》]) are modelled by what they match.        *)
(* A Python string literal of the source is the sequence of its code       *)
(* points; the literal is quoted in the comment next to it.                *)
(* A fixed message of the source that no operation inspects is an ASCII    *)
(* tag (its text is quoted in the comment next to it), and an f-string     *)
(* with holes is a tuple <<tag of the template, values of the holes>>.     *)
(***************************************************************************)
EXTENDS Integers, Sequences, FiniteSets, TLC

VARIABLES
    paper_content,              \* the manuscript text (main, line 327)
    common_typos,               \* the typo table of diagnose_paper (lines 87-92)
    pc,                         \* position inside main / generate_review_report
    run,                        \* number of the process run of main()
    report,                     \* generate_review_report: report
    hard_issues,                \* generate_review_report: hard_issues
    core_theories,              \* generate_review_report: core_theories
    citations,                  \* generate_review_report: citations
    theoretical_analysis,       \* generate_review_report: theoretical_analysis
    interpretation_evaluation,  \* generate_review_report: interpretation_evaluation
    citation_issues,            \* generate_review_report: citation_issues
    aesthetic_analysis,         \* generate_review_report: aesthetic_analysis
    formatted_report,           \* main: formatted_report, a sequence of lines
    previous                    \* report and rendering of the preceding process run

vars == << paper_content, common_typos, pc, run, report, hard_issues,
           core_theories, citations, theoretical_analysis,
           interpretation_evaluation, citation_issues, aesthetic_analysis,
           formatted_report, previous >>

(***************************************************************************)
(* Bounds of the model.                                                    *)
(***************************************************************************)
\* a text is the concatenation of at most MaxPieces pieces of a vocabulary
MaxPieces == 3
\* datetime.now() is one of MaxDate clock readings
MaxDate == 2

(***************************************************************************)
(* Characters and character classes of Python's re on str patterns.        *)
(***************************************************************************)
NEWLINE == 10       \* '\n', the one character '.' does not match
LQUOTE == 12298     \* '《'
RQUOTE == 12299     \* '》'

\* [A-Z]
IsUpper(c) == c \in 65..90
\* [a-zA-Z]
IsAlpha(c) == c \in 65..90 \/ c \in 97..122
\* \d (of the characters of the model's texts, the ASCII digits)
IsDigit(c) == c \in 48..57
\* [一-龥]
IsHan(c) == c \in 19968..40869
\* \w of a str pattern: Unicode letters and digits and the underscore; the
\* Han ideographs are letters.  Punctuation ('《', '》', '，', '|'), the
\* space and the line break are not.
IsWord(c) == IsAlpha(c) \/ IsDigit(c) \/ c = 95 \/ IsHan(c)

WordAt(s, p) == p \in 1..Len(s) /\ IsWord(s[p])
\* \b at the position before s[p], p in 1..Len(s)+1
Boundary(s, p) == WordAt(s, p - 1) # WordAt(s, p)

\* the literal t stands in s at position i
MatchAt(s, i, t) ==
    /\ i >= 1
    /\ i + Len(t) - 1 <= Len(s)
    /\ SubSeq(s, i, i + Len(t) - 1) = t

\* Python's "t in s" on strings
Contains(s, t) == \E i \in 1..(Len(s) - Len(t) + 1) : MatchAt(s, i, t)

Max(S) == CHOOSE x \in S : \A y \in S : y <= x

Range(f) == { f[i] : i \in DOMAIN f }

\* re.findall's scan: ends[i] is the end of the match the engine finds when
\* it starts at i (0: no match there); the scan takes the leftmost match and
\* resumes after its end.  The result is the sequence of spans <<i, end>>.
RECURSIVE Scan(_, _)
Scan(ends, i) ==
    IF i > Len(ends) THEN << >>
    ELSE IF ends[i] = 0 THEN Scan(ends, i + 1)
    ELSE << <<i, ends[i]>> >> \o Scan(ends, ends[i] + 1)

(***************************************************************************)
(* extract_core_theories                                                   *)
(***************************************************************************)
theory_keywords ==
    << <<35299, 26500, 20027, 20041>>,          \* 解构主义
       <<29289, 24863>>,                        \* 物感
       <<21521, 24515, 34917, 20607>>,          \* 向心补偿
       <<29616, 35937, 23398>>,                 \* 现象学
       <<23384, 22312, 20027, 20041>>,          \* 存在主义
       <<32467, 26500, 20027, 20041>>,          \* 结构主义
       <<21518, 29616, 20195, 20027, 20041>>,   \* 后现代主义
       <<29983, 24577, 32654, 23398>>,          \* 生态美学
       <<25968, 23383, 32654, 23398>>,          \* 数字美学
       <<23186, 20171, 32771, 21476, 23398>>,   \* 媒介考古学
       <<38416, 37322, 23398>>,                 \* 阐释学
       <<25509, 21463, 32654, 23398>>,          \* 接受美学
       <<26032, 25209, 35780>>,                 \* 新批评
       <<25991, 21270, 30740, 31350>>,          \* 文化研究
       <<22899, 24615, 20027, 20041>>,          \* 女性主义
       <<21518, 27542, 27665, 20027, 20041>>,   \* 后殖民主义
       <<31934, 31070, 20998, 26512>>,          \* 精神分析
       <<31526, 21495, 23398>>,                 \* 符号学
       <<21465, 20107, 23398>>,                 \* 叙事学
       <<20462, 36766, 23398>>,                 \* 修辞学
       <<24418, 24335, 20027, 20041>> >>        \* 形式主义

\* r'\b[A-Z][a-zA-Z]*ism\b' tried at position i: the end of the match, the
\* longest first ([a-zA-Z]* is greedy), or 0
english_theories_end(s, i) ==
    LET C == { e \in (i + 3)..Len(s) :
                 /\ Boundary(s, i)
                 /\ IsUpper(s[i])
                 /\ \A k \in (i + 1)..(e - 3) : IsAlpha(s[k])
                 /\ MatchAt(s, e - 2, <<105, 115, 109>>)     \* 'ism'
                 /\ Boundary(s, e + 1) }
    IN  IF C = {} THEN 0 ELSE Max(C)

\* re.findall(r'\b[A-Z][a-zA-Z]*ism\b', paper_content)
english_theories(s) ==
    LET spans == Scan([i \in 1..Len(s) |-> english_theories_end(s, i)], 1)
    IN  [n \in 1..Len(spans) |-> SubSeq(s, spans[n][1], spans[n][2])]

\* found_theories before the conversion to a set (lines 44-51)
found_theories(s) ==
    SelectSeq(theory_keywords, LAMBDA theory : Contains(s, theory))
        \o english_theories(s)

\* list(set(...)): the iteration order of a set of str is fixed by the
\* strings' hashes, which CPython randomises per process; every enumeration
\* of the set without repetition is an order some process run produces.
ListsOfSet(S) ==
    { f \in [1..Cardinality(S) -> S] : \A i, j \in DOMAIN f : f[i] = f[j] => i = j }

\* the lists extract_core_theories can return for the text s
extract_core_theories(s) == ListsOfSet(Range(found_theories(s)))

(***************************************************************************)
(* extract_citations                                                       *)
(***************************************************************************)
\* r'《([^》]+)》' tried at position i: end of the match or 0
chinese_classics_end(s, i) ==
    LET C == { e \in (i + 2)..Len(s) :
                 /\ s[i] = LQUOTE
                 /\ \A k \in (i + 1)..(e - 1) : s[k] # RQUOTE
                 /\ s[e] = RQUOTE }
    IN  IF C = {} THEN 0 ELSE Max(C)

\* r'\b([A-Z][a-zA-Z]+)\b' tried at position i: end of the match, the
\* longest first, or 0
foreign_texts_end(s, i) ==
    LET C == { e \in (i + 1)..Len(s) :
                 /\ Boundary(s, i)
                 /\ IsUpper(s[i])
                 /\ \A k \in (i + 1)..e : IsAlpha(s[k])
                 /\ Boundary(s, e + 1) }
    IN  IF C = {} THEN 0 ELSE Max(C)

\* r'([一-龥]+)《([^》]+)》，《([^》]+)》(\d{4})年第(\d+)期' tried at position i:
\* the set of <<a, b, c, d>> with the author in i..a, '《' at a+1, the title
\* in a+2..b-1, '》，《' at b, the venue in b+3..c-1, '》' at c, the year in
\* c+1..c+4, '年第' at c+5, the issue in c+7..d and '期' at d+1
modern_papers_splits(s, i) ==
    { q \in UNION { UNION { UNION { { <<a, b, c, d>> :
            d \in { x \in (c + 7)..(Len(s) - 1) :
                      /\ \A k \in (c + 7)..x : IsDigit(s[k])
                      /\ s[x + 1] = 26399 } } :                  \* '期'
            c \in { x \in (b + 4)..Len(s) :
                      /\ \A k \in (b + 3)..(x - 1) : s[k] # RQUOTE
                      /\ s[x] = RQUOTE
                      /\ x + 6 <= Len(s)
                      /\ \A k \in (x + 1)..(x + 4) : IsDigit(s[k])
                      /\ MatchAt(s, x + 5, <<24180, 31532>>) } } : \* '年第'
            b \in { x \in (a + 3)..Len(s) :
                      /\ \A k \in (a + 2)..(x - 1) : s[k] # RQUOTE
                      /\ MatchAt(s, x, <<RQUOTE, 65292, LQUOTE>>) } } : \* '》，《'
            a \in { x \in i..(Len(s) - 1) :
                      /\ \A k \in i..x : IsHan(s[k])
                      /\ s[x + 1] = LQUOTE } } : TRUE }

\* the match the engine reports at i: every quantifier is greedy, so the
\* split with the longest author, title, venue and issue, in that order
modern_papers_match(s, i) ==
    LET M == modern_papers_splits(s, i)
        better(p, q) ==
            \/ p[1] > q[1]
            \/ p[1] = q[1] /\ p[2] > q[2]
            \/ p[1] = q[1] /\ p[2] = q[2] /\ p[3] > q[3]
            \/ p[1] = q[1] /\ p[2] = q[2] /\ p[3] = q[3] /\ p[4] >= q[4]
    IN  CHOOSE p \in M : \A q \in M : better(p, q)

modern_papers_end(s, i) ==
    IF modern_papers_splits(s, i) = {} THEN 0
    ELSE modern_papers_match(s, i)[4] + 1

\* the tuple of groups findall returns for the match at i
modern_papers_groups(s, i) ==
    LET m == modern_papers_match(s, i)
    IN  << SubSeq(s, i, m[1]),
           SubSeq(s, m[1] + 2, m[2] - 1),
           SubSeq(s, m[2] + 3, m[3] - 1),
           SubSeq(s, m[3] + 1, m[3] + 4),
           SubSeq(s, m[3] + 7, m[4]) >>

extract_citations(s) ==
    LET classics == Scan([i \in 1..Len(s) |-> chinese_classics_end(s, i)], 1)
        foreign  == Scan([i \in 1..Len(s) |-> foreign_texts_end(s, i)], 1)
        modern   == Scan([i \in 1..Len(s) |-> modern_papers_end(s, i)], 1)
    IN  [ chinese_classics |->
              [n \in 1..Len(classics) |->
                  SubSeq(s, classics[n][1] + 1, classics[n][2] - 1)],
          foreign_texts |->
              [n \in 1..Len(foreign) |->
                  SubSeq(s, foreign[n][1], foreign[n][2])],
          modern_papers |->
              [n \in 1..Len(modern) |-> modern_papers_groups(s, modern[n][1])] ]

(***************************************************************************)
(* diagnose_paper                                                          *)
(***************************************************************************)
\* the dict literal of lines 87-92, in insertion order: <<typo, correct>>
code_common_typos ==
    << << <<29616, 35937, 23398, 20027, 20041>>,      \* 现象学主义
          <<29616, 35937, 23398>> >>,                 \* 现象学
       << <<40657, 26684, 23572>>,                    \* 黑格尔
          <<28023, 24503, 26684, 23572>> >>,          \* 海德格尔
       << <<35299, 26500, 35770>>,                    \* 解构论
          <<35299, 26500, 20027, 20041>> >>,          \* 解构主义
       << <<25991, 24515, 38613, 40857, 27880>>,      \* 文心雕龙注
          <<25991, 24515, 38613, 40857>> >> >>        \* 文心雕龙

\* lines 99-102: the pattern r'\bFIRST\b.*\bSECOND\b' is kept as
\* <<FIRST, SECOND, description>>
term_misuses_patterns ==
    << << <<35299, 26500, 20027, 20041>>,             \* 解构主义
          <<32467, 26500, 20027, 20041>>,             \* 结构主义
          "confuses_deconstruction_and_structuralism" >>,   \* '混淆了解构主义和结构主义'
       << <<29289, 24863>>,                           \* 物感
          <<29289, 21270>>,                           \* 物化
          "confuses_wugan_and_wuhua" >> >>                 \* '混淆了物感和物化概念'
\* f'将"{typo}"误写为"{correct}"'
typo_issue(entry) == << "typo_written_as", entry[1], entry[2] >>

\* lines 94-96 with a break after the first hit
diagnose_typos_first_match(s, typos) ==
    LET hits == SelectSeq(typos, LAMBDA entry : Contains(s, entry[1]))
    IN  [n \in 1..(IF Len(hits) > 0 THEN 1 ELSE 0) |-> typo_issue(hits[n])]

\* lines 94-96: one issue for every entry of the table whose typo is in the
\* text, in the table's order
diagnose_typos(s, typos) ==
    LET hits == SelectSeq(typos, LAMBDA entry : Contains(s, entry[1]))
    IN  [n \in 1..Len(hits) |-> typo_issue(hits[n])]

\* '.*' between positions a and b: any characters but the line break
DotStar(s, a, b) == \A k \in a..b : s[k] # NEWLINE

\* r'\bTERM\b' at position i
BoundedTerm(s, i, term) ==
    /\ Boundary(s, i)
    /\ MatchAt(s, i, term)
    /\ Boundary(s, i + Len(term))

\* re.search(r'\bFIRST\b.*\bSECOND\b', s) finds a match
term_misuse_search(s, first, second) ==
    \E i \in 1..Len(s) :
        /\ BoundedTerm(s, i, first)
        /\ \E j \in (i + Len(first))..Len(s) :
              /\ DotStar(s, i + Len(first), j - 1)
              /\ BoundedTerm(s, j, second)

\* lines 104-106
diagnose_term_misuses(s) ==
    LET hits == SelectSeq(term_misuses_patterns,
                          LAMBDA p : term_misuse_search(s, p[1], p[2]))
    IN  [n \in 1..Len(hits) |-> hits[n][3]]

diagnose_paper(s, typos) ==
    [ typos           |-> diagnose_typos(s, typos),
      citation_errors |-> << >>,
      term_misuses    |-> diagnose_term_misuses(s) ]

(***************************************************************************)
(* analyze_theoretical_lineage                                             *)
(***************************************************************************)
\* line 120: ['解构主义', '现象学']
western_theories ==
    { <<35299, 26500, 20027, 20041>>, <<29616, 35937, 23398>> }
\* line 123: ['物感', '向心补偿']
chinese_theories ==
    { <<29289, 24863>>, <<21521, 24515, 34917, 20607>> }

\* the for loop of lines 118-127 from the i-th theory on
RECURSIVE lineage_loop(_, _, _)
lineage_loop(theories, i, acc) ==
    IF i > Len(theories) THEN acc
    ELSE LET theory == theories[i]
         IN  IF theory \in western_theories
             THEN lineage_loop(theories, i + 1,
                    [ solid_theories |->
                          \* f'理论"{theory}"的谱系较为清晰，但需补充最新研究成果'
                          Append(acc.solid_theories, <<"lineage_clear", theory>>),
                      missing_literature |->
                          \* f'{theory}领域的最新研究：张三《{theory}的当代转向》，2024'
                          Append(acc.missing_literature, <<"latest_research", theory>>) ])
             ELSE IF theory \in chinese_theories
             THEN lineage_loop(theories, i + 1,
                    [ solid_theories |->
                          \* f'理论"{theory}"的中国特色鲜明，但需加强与西方理论的对话'
                          Append(acc.solid_theories, <<"chinese_character", theory>>),
                      missing_literature |->
                          \* f'{theory}与西方现象学比较研究：李四《从{theory}到现象学》，2023'
                          Append(acc.missing_literature, <<"comparative_study", theory>>) ])
             ELSE lineage_loop(theories, i + 1,
                    [ solid_theories |->
                          \* f'理论"{theory}"的运用基本合理'
                          Append(acc.solid_theories, <<"use_reasonable", theory>>),
                      missing_literature |-> acc.missing_literature ])

\* lines 118-127 with a loop that starts at the second theory
analyze_theoretical_lineage_from_second(theories) ==
    lineage_loop(theories, 2, [solid_theories |-> << >>, missing_literature |-> << >>])

analyze_theoretical_lineage(theories) ==
    lineage_loop(theories, 1, [solid_theories |-> << >>, missing_literature |-> << >>])

(***************************************************************************)
(* evaluate_interpretation                                                 *)
(***************************************************************************)
DEPTH_MEDIUM == <<20013, 31561>>            \* '中等'
DEPTH_DEEPER == <<36739, 28145>>            \* '较深'
ORIGINALITY_AVERAGE == <<19968, 33324>>     \* '一般'
ORIGINALITY_GOOD == <<36739, 22909>>        \* '较好'
\* '缺乏对当代艺术实践的观照'
LACKS_CONTEMPORARY == "lacks_view_of_contemporary_art_practice"
stock_issues ==
    << "interpretation_superficial",  \* '文本阐释较为表面，缺乏深入的文化语境分析'
       "theory_text_forced",          \* '理论与文本结合不够紧密，存在生搬硬套现象'
       LACKS_CONTEMPORARY >>

\* list.remove(x): drops the first element equal to x
ListRemove(list, x) ==
    LET n == CHOOSE i \in 1..Len(list) :
                 list[i] = x /\ \A j \in 1..(i - 1) : list[j] # x
    IN  SubSeq(list, 1, n - 1) \o SubSeq(list, n + 1, Len(list))

\* line 145 with the test of '当代艺术' only
evaluate_interpretation_one_keyword(s) ==
    IF Contains(s, <<24403, 20195, 33402, 26415>>)
    THEN [ depth       |-> DEPTH_DEEPER,
           originality |-> ORIGINALITY_GOOD,
           issues      |-> ListRemove(stock_issues, LACKS_CONTEMPORARY) ]
    ELSE [ depth       |-> DEPTH_MEDIUM,
           originality |-> ORIGINALITY_AVERAGE,
           issues      |-> stock_issues ]

evaluate_interpretation(s) ==
    IF \/ Contains(s, <<24403, 20195, 33402, 26415>>)      \* '当代艺术'
       \/ Contains(s, <<25968, 23383, 33402, 26415>>)      \* '数字艺术'
    THEN [ depth       |-> DEPTH_DEEPER,
           originality |-> ORIGINALITY_GOOD,
           issues      |-> ListRemove(stock_issues, LACKS_CONTEMPORARY) ]
    ELSE [ depth       |-> DEPTH_MEDIUM,
           originality |-> ORIGINALITY_AVERAGE,
           issues      |-> stock_issues ]

(***************************************************************************)
(* check_citations_accuracy                                                *)
(***************************************************************************)
\* line 159: ['文心雕龙', '诗品', '人间词话']
canonical_classics ==
    { <<25991, 24515, 38613, 40857>>, <<35799, 21697>>,
      <<20154, 38388, 35789, 35805>> }

\* lines 163-167, <<foreign name, standard translation>>
common_mistranslations ==
    << << <<72, 101, 105, 100, 101, 103, 103, 101, 114>>,       \* 'Heidegger'
          <<28023, 24503, 26684, 23572>> >>,                    \* '海德格尔'
       << <<72, 101, 103, 101, 108>>,                           \* 'Hegel'
          <<40657, 26684, 23572>> >>,                           \* '黑格尔'
       << <<78, 105, 101, 116, 122, 115, 99, 104, 101>>,        \* 'Nietzsche'
          <<23612, 37319>> >> >>                                \* '尼采'

\* common_mistranslations[name]
translation_of(name) ==
    LET n == CHOOSE i \in 1..Len(common_mistranslations) :
                 common_mistranslations[i][1] = name
    IN  common_mistranslations[n][2]

check_citations_accuracy(cit) ==
    LET classics == SelectSeq(cit.chinese_classics,
                              LAMBDA classic : classic \in canonical_classics)
        foreign  == SelectSeq(cit.foreign_texts,
                              LAMBDA name : \E i \in 1..Len(common_mistranslations) :
                                               common_mistranslations[i][1] = name)
    IN  \* f'《{classic}》引用时应标注具体版本和页码'
        [n \in 1..Len(classics) |-> <<"cite_edition_and_page", classics[n]>>]
        \* f'{foreign_text}的标准译名为"{...}"，请检查译名是否规范'
        \o [n \in 1..Len(foreign) |->
               <<"standard_translation", foreign[n], translation_of(foreign[n])>>]

(***************************************************************************)
(* review_aesthetic_logic                                                  *)
(***************************************************************************)
\* the character class [主义|理论|转向|维度|谱系] of line 184: one character
\* out of these
jargon_class ==
    { 20027, 20041, 124, 29702, 35770, 36716, 21521, 32500, 24230, 35889, 31995 }
\* line 185
JARGON_THRESHOLD == 20

\* r'\b[一-龥]+[主义|理论|转向|维度|谱系]\b' tried at position i: the end of
\* the match, the longest first ([一-龥]+ is greedy), or 0
jargon_end(s, i) ==
    LET C == { e \in (i + 1)..Len(s) :
                 /\ Boundary(s, i)
                 /\ \A k \in i..(e - 1) : IsHan(s[k])
                 /\ s[e] \in jargon_class
                 /\ Boundary(s, e + 1) }
    IN  IF C = {} THEN 0 ELSE Max(C)

\* len(re.findall(...)) of line 184
jargon_count(s) == Len(Scan([i \in 1..Len(s) |-> jargon_end(s, i)], 1))

WEST == <<35199, 26041>>       \* '西方'
THEORY == <<29702, 35770>>     \* '理论'
CHINA == <<20013, 22269>>      \* '中国'

\* re.search(r'西方.*理论.*中国', s) finds a match
transplant_search(s) ==
    \E i \in 1..Len(s) :
        /\ MatchAt(s, i, WEST)
        /\ \E j \in (i + 2)..Len(s) :
              /\ DotStar(s, i + 2, j - 1)
              /\ MatchAt(s, j, THEORY)
              /\ \E k \in (j + 2)..Len(s) :
                    /\ DotStar(s, j + 2, k - 1)
                    /\ MatchAt(s, k, CHINA)

review_aesthetic_logic(s) ==
    [ discourse_issues |->
          IF jargon_count(s) > JARGON_THRESHOLD
          THEN << "too_many_academic_terms" >>   \* '使用了过多的学术术语，可能掩盖思想的贫瘠'
          ELSE << >>,
      logic_issues |->
          IF Contains(s, WEST) /\ Contains(s, CHINA) /\ transplant_search(s)
          \* '存在将西方理论直接套用于中国艺术实践的倾向，需注意避免理论殖民'
          THEN << "theory_transplant" >>
          ELSE << >> ]

(***************************************************************************)
(* format_report: the rendering as the sequence of its lines.  A heading   *)
(* is <<"h1" | "h2" | "h3", which>>, an empty line is <<"blank">>.          *)
(***************************************************************************)
H2_DIAGNOSIS == << "h2", "diagnosis" >>          \* '## 第一步：诊断结果'
H2_PERSPECTIVE == << "h2", "perspective" >>      \* '## 第二步：透视分析'
H2_SURGERY == << "h2", "surgery" >>              \* '## 第三步：修改建议'
H2_FINAL == << "h2", "final" >>                  \* '## 最终评估'
NO_HARD_ISSUES == << "item", "no_hard_issues" >> \* '- 未发现明显的硬伤'
BLANK == << "blank" >>

\* one line f"- {x}\n" (or f"  - {x}\n") for every x of the list
Items(tag, list) == [n \in 1..Len(list) |-> << tag, list[n] >>]

\* hard_issues.items(), in the insertion order of lines 80-84
hard_issue_types == << "typos", "citation_errors", "term_misuses" >>

\* the for loop of lines 257-261 from the i-th issue type on
RECURSIVE hard_issue_lines(_, _)
hard_issue_lines(hard, i) ==
    IF i > Len(hard_issue_types) THEN << >>
    ELSE LET issues == hard[hard_issue_types[i]]
         IN  ( IF issues # << >>
               THEN << << "issue_type", hard_issue_types[i] >> >>
                        \o Items("subitem", issues)
               ELSE << >> )
             \o hard_issue_lines(hard, i + 1)

\* lines 252-264 with a test of the typos alone at line 255
format_diagnosis_typos_only(hard) ==
    << H2_DIAGNOSIS, BLANK >>
    \o ( IF hard.typos # << >>
         THEN << << "h3", "hard_issues" >> >> \o hard_issue_lines(hard, 1)
         ELSE << << "h3", "hard_issues" >>, NO_HARD_ISSUES >> )

\* lines 252-264
format_diagnosis(hard) ==
    << H2_DIAGNOSIS, BLANK >>
    \o ( IF \E t \in Range(hard_issue_types) : hard[t] # << >>   \* any(...)
         THEN << << "h3", "hard_issues" >> >> \o hard_issue_lines(hard, 1)
         ELSE << << "h3", "hard_issues" >>, NO_HARD_ISSUES >> )

\* lines 266-290
format_perspective(perspective) ==
    << BLANK, H2_PERSPECTIVE, BLANK >>
    \o << << "h3", "core_theories" >>,
          << "item_joined", perspective.core_theories >>, BLANK >>
    \o << << "h3", "lineage" >> >>
    \o Items("item", perspective.theoretical_lineage.solid_theories)
    \o << BLANK, << "h3", "missing_literature" >> >>
    \o Items("item", perspective.theoretical_lineage.missing_literature)
    \o << BLANK, << "h3", "interpretation" >>,
          << "depth", perspective.interpretation_evaluation.depth >>,
          << "originality", perspective.interpretation_evaluation.originality >>,
          << "item", "problems" >> >>
    \o Items("subitem", perspective.interpretation_evaluation.issues)
    \o << BLANK, << "h3", "academic_position" >>,
          << "text", perspective.academic_position >> >>

\* lines 292-314 with the section heading inside the test of line 297
format_surgery_heading_in_test(surgery) ==
    ( IF surgery.citation_issues # << >>
      THEN << BLANK, H2_SURGERY, BLANK, << "h3", "citation_issues" >> >>
               \o Items("item", surgery.citation_issues)
      ELSE << >> )
    \o ( IF surgery.aesthetic_analysis.discourse_issues # << >>
         THEN << BLANK, << "h3", "discourse_issues" >> >>
                  \o Items("item", surgery.aesthetic_analysis.discourse_issues)
         ELSE << >> )
    \o ( IF surgery.aesthetic_analysis.logic_issues # << >>
         THEN << BLANK, << "h3", "logic_issues" >> >>
                  \o Items("item", surgery.aesthetic_analysis.logic_issues)
         ELSE << >> )
    \o << BLANK, << "h3", "restructuring" >> >>
    \o Items("item", surgery.restructuring_suggestions)

\* lines 292-314
format_surgery(surgery) ==
    << BLANK, H2_SURGERY, BLANK >>
    \o ( IF surgery.citation_issues # << >>
         THEN << << "h3", "citation_issues" >> >>
                  \o Items("item", surgery.citation_issues)
         ELSE << >> )
    \o ( IF surgery.aesthetic_analysis.discourse_issues # << >>
         THEN << BLANK, << "h3", "discourse_issues" >> >>
                  \o Items("item", surgery.aesthetic_analysis.discourse_issues)
         ELSE << >> )
    \o ( IF surgery.aesthetic_analysis.logic_issues # << >>
         THEN << BLANK, << "h3", "logic_issues" >> >>
                  \o Items("item", surgery.aesthetic_analysis.logic_issues)
         ELSE << >> )
    \o << BLANK, << "h3", "restructuring" >> >>
    \o Items("item", surgery.restructuring_suggestions)

format_report(r) ==
    << << "h1", r.title >>, BLANK, << "date", r.date >>, BLANK >>
    \o format_diagnosis(r.diagnosis)
    \o format_perspective(r.perspective)
    \o format_surgery(r.surgery)
    \o << BLANK, H2_FINAL, << "text", "final_assessment" >> >>

(***************************************************************************)
(* Manuscript texts: concatenations of at most MaxPieces pieces of a       *)
(* vocabulary of phrases.                                                  *)
(***************************************************************************)
RECURSIVE Texts(_, _)
Texts(vocabulary, n) ==
    IF n = 0 THEN { << >> }
    ELSE Texts(vocabulary, n - 1)
           \cup { t \o p : t \in Texts(vocabulary, n - 1), p \in vocabulary }

SPACE == << 32 >>

\* theory terms of the three lineage buckets and an English -ism term
VocabTheories ==
    { <<35299, 26500, 20027, 20041>>,               \* 解构主义
      <<29289, 24863>>,                             \* 物感
      <<23384, 22312, 20027, 20041>>,               \* 存在主义
      <<77, 97, 114, 120, 105, 115, 109>>,          \* Marxism
      SPACE }

\* a foreign name, a classic, an unmatched bracket, running prose
VocabCitations ==
    { <<72, 101, 105, 100, 101, 103, 103, 101, 114>>,           \* Heidegger
      <<LQUOTE, 25991, 24515, 38613, 40857, RQUOTE>>,           \* 《文心雕龙》
      <<LQUOTE>>,                                               \* 《
      <<35748, 20026>>,                                         \* 认为
      SPACE }

\* the markers of the transplant pattern, jargon and the contemporary cues
VocabDiscourse ==
    { WEST, THEORY, CHINA, <<NEWLINE>>,
      WEST \o THEORY,                                           \* 西方理论
      <<24403, 20195, 33402, 26415>>,                           \* 当代艺术
      <<25968, 23383, 33402, 26415>> }                          \* 数字艺术

\* the typos of the table
VocabTypos ==
    { <<29616, 35937, 23398, 20027, 20041>>,        \* 现象学主义
      <<40657, 26684, 23572>>,                      \* 黑格尔
      <<35299, 26500, 35770>>,                      \* 解构论
      <<25991, 24515, 38613, 40857, 27880>>,        \* 文心雕龙注
      SPACE }

\* the terms of the confusion patterns and a typo
VocabDiagnosis ==
    { <<35299, 26500, 20027, 20041>>,               \* 解构主义
      <<32467, 26500, 20027, 20041>>,               \* 结构主义
      <<29289, 24863>>,                             \* 物感
      <<29289, 21270>>,                             \* 物化
      <<35299, 26500, 35770>>,                      \* 解构论
      SPACE }

\* the typo tables a test of the table semantics runs with: the table of the
\* code as it grows entry by entry
TypoTables == { SubSeq(code_common_typos, 1, n) : n \in 0..Len(code_common_typos) }

\* a local of generate_review_report that is not yet assigned
UNSET == "unset"
\* the {} of lines 200-202
EMPTY_DICT == << >>

(***************************************************************************)
(* The process: main() reads the text and runs generate_review_report and  *)
(* format_report; the same text is then reviewed by a new process run.     *)
(***************************************************************************)
\* number of process runs on the same text
MaxRuns == 2

InitWith(texts, tables) ==
    /\ paper_content \in texts
    /\ common_typos \in tables
    /\ pc = "start"
    /\ run = 1
    /\ report = UNSET
    /\ hard_issues = UNSET
    /\ core_theories = UNSET
    /\ citations = UNSET
    /\ theoretical_analysis = UNSET
    /\ interpretation_evaluation = UNSET
    /\ citation_issues = UNSET
    /\ aesthetic_analysis = UNSET
    /\ formatted_report = UNSET
    /\ previous = UNSET

Init == InitWith(Texts(VocabTheories, MaxPieces), {code_common_typos})
InitCitations == InitWith(Texts(VocabCitations, MaxPieces), {code_common_typos})
InitDiscourse == InitWith(Texts(VocabDiscourse, MaxPieces), {code_common_typos})
InitTypos == InitWith(Texts(VocabTypos, MaxPieces), TypoTables)
InitDiagnosis == InitWith(Texts(VocabDiagnosis, MaxPieces), {code_common_typos})

\* lines 197-203
BeginReport ==
    /\ pc = "start"
    /\ \E now \in 1..MaxDate :
          report' = [ title       |-> "review_report_title",
                      date        |-> now,
                      diagnosis   |-> EMPTY_DICT,
                      perspective |-> EMPTY_DICT,
                      surgery     |-> EMPTY_DICT ]
    /\ pc' = "diagnose"
    /\ UNCHANGED << paper_content, common_typos, run, hard_issues, core_theories,
                    citations, theoretical_analysis, interpretation_evaluation,
                    citation_issues, aesthetic_analysis, formatted_report, previous >>

\* lines 207-208
Diagnose ==
    /\ pc = "diagnose"
    /\ hard_issues' = diagnose_paper(paper_content, common_typos)
    /\ report' = [report EXCEPT !.diagnosis = hard_issues']
    /\ pc' = "extract_core_theories"
    /\ UNCHANGED << paper_content, common_typos, run, core_theories,
                    citations, theoretical_analysis, interpretation_evaluation,
                    citation_issues, aesthetic_analysis, formatted_report, previous >>

\* line 212
ExtractCoreTheories ==
    /\ pc = "extract_core_theories"
    /\ core_theories' \in extract_core_theories(paper_content)
    /\ pc' = "extract_citations"
    /\ UNCHANGED << paper_content, common_typos, run, report, hard_issues,
                    citations, theoretical_analysis, interpretation_evaluation,
                    citation_issues, aesthetic_analysis, formatted_report, previous >>

\* line 213
ExtractCitations ==
    /\ pc = "extract_citations"
    /\ citations' = extract_citations(paper_content)
    /\ pc' = "analyze_lineage"
    /\ UNCHANGED << paper_content, common_typos, run, report, hard_issues,
                    core_theories, theoretical_analysis, interpretation_evaluation,
                    citation_issues, aesthetic_analysis, formatted_report, previous >>

\* line 217
AnalyzeLineage ==
    /\ pc = "analyze_lineage"
    /\ theoretical_analysis' = analyze_theoretical_lineage(core_theories)
    /\ pc' = "evaluate_interpretation"
    /\ UNCHANGED << paper_content, common_typos, run, report, hard_issues,
                    core_theories, citations, interpretation_evaluation,
                    citation_issues, aesthetic_analysis, formatted_report, previous >>

\* lines 218-225
EvaluateInterpretation ==
    /\ pc = "evaluate_interpretation"
    /\ interpretation_evaluation' = evaluate_interpretation(paper_content)
    /\ report' = [report EXCEPT !.perspective =
                     [ core_theories             |-> core_theories,
                       theoretical_lineage       |-> theoretical_analysis,
                       interpretation_evaluation |-> interpretation_evaluation',
                       academic_position         |-> "academic_position" ]]
    /\ pc' = "check_citations"
    /\ UNCHANGED << paper_content, common_typos, run, hard_issues,
                    core_theories, citations, theoretical_analysis,
                    citation_issues, aesthetic_analysis, formatted_report, previous >>

\* line 229
CheckCitations ==
    /\ pc = "check_citations"
    /\ citation_issues' = check_citations_accuracy(citations)
    /\ pc' = "review_aesthetic_logic"
    /\ UNCHANGED << paper_content, common_typos, run, report, hard_issues,
                    core_theories, citations, theoretical_analysis,
                    interpretation_evaluation, aesthetic_analysis,
                    formatted_report, previous >>

\* lines 235-241
restructuring_suggestions ==
    << "strengthen_theory_and_text",    \* '强化理论与文本的结合，避免生搬硬套'
       "add_latest_research",           \* '补充该领域的最新研究成果'
       "attend_to_contemporary_art",    \* '加强对当代艺术实践的观照'
       "optimise_discourse",            \* '优化学术话语，避免过度使用术语'
       "mind_citation_norms" >>         \* '注意引文的规范性和准确性'

\* lines 230-244
ReviewAestheticLogic ==
    /\ pc = "review_aesthetic_logic"
    /\ aesthetic_analysis' = review_aesthetic_logic(paper_content)
    /\ report' = [report EXCEPT !.surgery =
                     [ citation_issues           |-> citation_issues,
                       aesthetic_analysis        |-> aesthetic_analysis',
                       restructuring_suggestions |-> restructuring_suggestions ]]
    /\ pc' = "format_report"
    /\ UNCHANGED << paper_content, common_typos, run, hard_issues,
                    core_theories, citations, theoretical_analysis,
                    interpretation_evaluation, citation_issues,
                    formatted_report, previous >>

\* main, line 337
FormatReport ==
    /\ pc = "format_report"
    /\ formatted_report' = format_report(report)
    /\ pc' = "done"
    /\ UNCHANGED << paper_content, common_typos, run, report, hard_issues,
                    core_theories, citations, theoretical_analysis,
                    interpretation_evaluation, citation_issues,
                    aesthetic_analysis, previous >>

\* main() is run again, as a new process, on the same text and tables
Rerun ==
    /\ pc = "done"
    /\ run < MaxRuns
    /\ previous' = [ report |-> report, formatted_report |-> formatted_report ]
    /\ run' = run + 1
    /\ pc' = "start"
    /\ report' = UNSET
    /\ hard_issues' = UNSET
    /\ core_theories' = UNSET
    /\ citations' = UNSET
    /\ theoretical_analysis' = UNSET
    /\ interpretation_evaluation' = UNSET
    /\ citation_issues' = UNSET
    /\ aesthetic_analysis' = UNSET
    /\ formatted_report' = UNSET
    /\ UNCHANGED << paper_content, common_typos >>

Next ==
    \/ BeginReport
    \/ Diagnose
    \/ ExtractCoreTheories
    \/ ExtractCitations
    \/ AnalyzeLineage
    \/ EvaluateInterpretation
    \/ CheckCitations
    \/ ReviewAestheticLogic
    \/ FormatReport
    \/ Rerun

Spec == Init /\ [][Next]_vars
SpecCitations == InitCitations /\ [][Next]_vars
SpecDiscourse == InitDiscourse /\ [][Next]_vars
SpecTypos == InitTypos /\ [][Next]_vars
SpecDiagnosis == InitDiagnosis /\ [][Next]_vars

(***************************************************************************)
(* Properties.                                                             *)
(***************************************************************************)
Finished == pc = "done"

\* C1: two process runs on the same text and tables produce Reports that are
\* equal in every field but 'date', the order of perspective.core_theories
\* and of the lineage lists derived from it included.
C1_Determinism ==
    (Finished /\ run > 1) =>
        [report EXCEPT !.date = 0] = [previous.report EXCEPT !.date = 0]

HEIDEGGER == <<72, 101, 105, 100, 101, 103, 103, 101, 114>>    \* 'Heidegger'
WENXIN == <<25991, 24515, 38613, 40857>>                       \* '文心雕龙'
HAIDEGEER == <<28023, 24503, 26684, 23572>>                    \* '海德格尔'

\* C2: a text that contains "Heidegger" and "《文心雕龙》" and not "海德格尔",
\* wherever they stand, gets both the edition/page reminder for 文心雕龙 and
\* the notice recommending "海德格尔" for "Heidegger".
C2_CitationScenario ==
    ( /\ Finished
      /\ Contains(paper_content, HEIDEGGER)
      /\ Contains(paper_content, <<LQUOTE>> \o WENXIN \o <<RQUOTE>>)
      /\ ~Contains(paper_content, HAIDEGEER) )
    => /\ <<"cite_edition_and_page", WENXIN>>
              \in Range(report.surgery.citation_issues)
       /\ <<"standard_translation", HEIDEGGER, HAIDEGEER>>
              \in Range(report.surgery.citation_issues)

\* "first", then "second", then "third" occur in s in that order, with any
\* characters between them
OccurInOrder3(s, first, second, third) ==
    \E i, j, k \in 1..Len(s) :
        /\ MatchAt(s, i, first)
        /\ i + Len(first) <= j
        /\ MatchAt(s, j, second)
        /\ j + Len(second) <= k
        /\ MatchAt(s, k, third)

\* C3: logic_issues holds exactly one theoretical-transplant warning when
\* "西方", "理论", "中国" occur in that order anywhere in the text (line
\* breaks between them included), and is empty otherwise.
C3_TransplantWarning ==
    Finished =>
        report.surgery.aesthetic_analysis.logic_issues =
            IF OccurInOrder3(paper_content, WEST, THEORY, CHINA)
            THEN << "theory_transplant" >>
            ELSE << >>

\* "first" occurs in s and "second" occurs after it, not necessarily adjacent
OccurInOrder2(s, first, second) ==
    \E i, j \in 1..Len(s) :
        /\ MatchAt(s, i, first)
        /\ i + Len(first) <= j
        /\ MatchAt(s, j, second)

Count(list, x) == Cardinality({ n \in 1..Len(list) : list[n] = x })

\* C4: for each (pattern, description) pair the description is in
\* term_misuses exactly once when the first term occurs before the second
\* anywhere in the text (also in running prose without spaces), and is not
\* in it otherwise.
C4_TermConfusion ==
    Finished =>
        \A n \in 1..Len(term_misuses_patterns) :
            LET p == term_misuses_patterns[n]
            IN  Count(report.diagnosis.term_misuses, p[3]) =
                    IF OccurInOrder2(paper_content, p[1], p[2]) THEN 1 ELSE 0

\* the entries of the table whose incorrect form is a substring of s
MatchingEntries(s, typos) ==
    { n \in 1..Len(typos) : Contains(s, typos[n][1]) }

\* C5: the typo issues are one per table entry whose incorrect form occurs
\* in the text, none dropped and none duplicated; and with a table whose
\* last entry was added and matches, there is exactly one issue more than
\* without it and the issues emitted without it are unchanged.
C5_TypoAllMatch ==
    Finished =>
        LET issues  == report.diagnosis.typos
            without == diagnose_typos(paper_content,
                                      SubSeq(common_typos, 1, Len(common_typos) - 1))
        IN  /\ Len(issues) = Cardinality(MatchingEntries(paper_content, common_typos))
            /\ \A n \in 1..Len(common_typos) :
                  Count(issues, << "typo_written_as", common_typos[n][1], common_typos[n][2] >>)
                      = IF n \in MatchingEntries(paper_content, common_typos) THEN 1 ELSE 0
            /\ ( Len(common_typos) \in MatchingEntries(paper_content, common_typos) )
                  => /\ Len(issues) = Len(without) + 1
                     /\ SubSeq(issues, 1, Len(without)) = without

C5_Witness ==
    /\ Finished
    /\ Len(common_typos) \in MatchingEntries(paper_content, common_typos)
    /\ Len(report.diagnosis.typos) >= 2
    /\ Len(report.diagnosis.typos) < Len(common_typos)

\* C6: depth "较深", originality "较好" and the two other stock issues, in
\* order, without '缺乏对当代艺术实践的观照', if the text contains "当代艺术" or
\* "数字艺术"; the baseline "中等", "一般" and all three stock issues otherwise.
C6_Interpretation ==
    Finished =>
        LET e == report.perspective.interpretation_evaluation
        IN  IF \/ Contains(paper_content, <<24403, 20195, 33402, 26415>>)
               \/ Contains(paper_content, <<25968, 23383, 33402, 26415>>)
            THEN /\ e.depth = <<36739, 28145>>
                 /\ e.originality = <<36739, 22909>>
                 /\ e.issues = << "interpretation_superficial", "theory_text_forced" >>
            ELSE /\ e.depth = <<20013, 31561>>
                 /\ e.originality = <<19968, 33324>>
                 /\ e.issues = << "interpretation_superficial", "theory_text_forced",
                                  "lacks_view_of_contemporary_art_practice" >>

C6_Witness ==
    /\ Finished
    /\ Contains(paper_content, <<25968, 23383, 33402, 26415>>)
    /\ ~Contains(paper_content, <<24403, 20195, 33402, 26415>>)
    /\ report.perspective.interpretation_evaluation.depth = <<36739, 28145>>

\* the position of the line in the rendering, 0 if it is not rendered
\* exactly once
LineOf(rendering, line) ==
    IF Count(rendering, line) = 1
    THEN CHOOSE n \in 1..Len(rendering) : rendering[n] = line
    ELSE 0

\* the fallback line is rendered, once, inside the Diagnosis section
FallbackRendered ==
    /\ LineOf(formatted_report, NO_HARD_ISSUES) > LineOf(formatted_report, H2_DIAGNOSIS)
    /\ LineOf(formatted_report, NO_HARD_ISSUES) < LineOf(formatted_report, H2_PERSPECTIVE)

NoHardIssues ==
    /\ report.diagnosis.typos = << >>
    /\ report.diagnosis.citation_errors = << >>
    /\ report.diagnosis.term_misuses = << >>

\* C7: the empty text yields empty diagnosis lists and an empty
\* core_theories and the fallback line '未发现明显的硬伤' in the Diagnosis
\* section; the fallback line is rendered exactly when every diagnosis
\* issue list is empty.
C7_Emptiness ==
    Finished =>
        /\ paper_content = << >> =>
              /\ NoHardIssues
              /\ report.perspective.core_theories = << >>
              /\ FallbackRendered
        /\ FallbackRendered <=> NoHardIssues
        /\ ~FallbackRendered => Count(formatted_report, NO_HARD_ISSUES) = 0

C7_Witness ==
    /\ Finished
    /\ paper_content = << >>
    /\ FallbackRendered

\* the top-level headings of the rendering, in their order
TopLevelHeadings(rendering) == SelectSeq(rendering, LAMBDA line : line[1] = "h2")

\* C8: the rendering has each of the four top-level headings exactly once,
\* in the order Diagnosis, Perspective, Surgery, Final assessment, whatever
\* the text.
C8_SectionOrder ==
    Finished =>
        TopLevelHeadings(formatted_report)
            = << H2_DIAGNOSIS, H2_PERSPECTIVE, H2_SURGERY, H2_FINAL >>

\* a text without any issue: no hard issue, no theory, no citation issue
C8_Witness ==
    /\ Finished
    /\ paper_content # << >>
    /\ NoHardIssues
    /\ report.surgery.citation_issues = << >>
    /\ report.surgery.aesthetic_analysis.logic_issues = << >>
    /\ LineOf(formatted_report, H2_SURGERY) > 0

\* the sentences of the list that were made for the theory
SentencesFor(list, theory) == { n \in 1..Len(list) : list[n][2] = theory }

\* C9: solid_theories gets exactly one sentence per term, missing_literature
\* exactly one reading for each term of {解构主义, 现象学} and {物感, 向心补偿}
\* and none for any other term; no term is in two buckets.
C9_LineageBuckets ==
    Finished =>
        LET theories == report.perspective.core_theories
            lineage  == report.perspective.theoretical_lineage
        IN  /\ Len(lineage.solid_theories) = Len(theories)
            /\ \A n \in 1..Len(theories) :
                  /\ Cardinality(SentencesFor(lineage.solid_theories, theories[n])) = 1
                  /\ Cardinality(SentencesFor(lineage.missing_literature, theories[n]))
                        = IF theories[n] \in
                               { <<35299, 26500, 20027, 20041>>, <<29616, 35937, 23398>>,
                                 <<29289, 24863>>, <<21521, 24515, 34917, 20607>> }
                          THEN 1 ELSE 0
            /\ Len(lineage.missing_literature)
                  = Cardinality({ n \in 1..Len(theories) :
                                    theories[n] \in western_theories \cup chinese_theories })
            /\ western_theories \cap chinese_theories = {}

C9_Witness ==
    /\ Finished
    /\ Len(report.perspective.core_theories) = 3
    /\ Len(report.perspective.theoretical_lineage.missing_literature) = 2
    /\ \E n \in 1..3 : report.perspective.core_theories[n] \in western_theories
    /\ \E n \in 1..3 : report.perspective.core_theories[n] \in chinese_theories

\* the academic-suffix markers 主义, 理论, 转向, 维度, 谱系
suffix_markers ==
    { <<20027, 20041>>, <<29702, 35770>>, <<36716, 21521>>,
      <<32500, 24230>>, <<35889, 31995>> }

\* the number of occurrences of a suffix marker in s
MarkerOccurrences(s) ==
    Cardinality({ i \in 1..Len(s) : \E m \in suffix_markers : MatchAt(s, i, m) })

\* C10: the count is the number of occurrences of terms ending in one of the
\* markers, each counted once also inside an unbroken run of Chinese
\* characters; the one warning is in discourse_issues exactly when the count
\* is above 20.
C10_JargonCount ==
    Finished =>
        /\ jargon_count(paper_content) = MarkerOccurrences(paper_content)
        /\ report.surgery.aesthetic_analysis.discourse_issues =
              IF MarkerOccurrences(paper_content) > 20
              THEN << "too_many_academic_terms" >>
              ELSE << >>

====
